---- MODULE Spec2Model ----
(***************************************************************************)
(* Cat Sort puzzle (src/app/components/match/CatSort.tsx): generation of   *)
(* the board, the click / undo / reset handlers, the animation timer and   *)
(* the completion and stuck evaluators.                                    *)
(*                                                                         *)
(* A box is the pair <<cat, n>> (its id is `${cat.id}-${n}`), a cat is the *)
(* number i of its id "cat-i".  A stack is a sequence of boxes whose top   *)
(* is element 1 (index 0 of the source); stack indices are 1-based here.   *)
(***************************************************************************)
EXTENDS Integers, Sequences, FiniteSets, TLC

\* ------------------------------------------------------------- bounds ----
\* Board mutations (accepted moves and undos) explored in one session: a
\* click or undo that would start one more is not taken.
MaxOps == 3
\* Math.random() is modelled by a tape of TapeLen draws, each in 0..MaxDraw,
\* read cyclically, one draw per call.
TapeLen == 3
MaxDraw == 1

\* ---------------------------------------------------------- constants ----
MAX_STACK_SIZE == 4
\* Array(8): the size of the placeholder cat pool
PoolSize == 8
\* Math.min(3, samecatBoxes.length)
MaxPairSize == 3

Difficulty == {"easy", "medium", "hard"}

DIFFICULTY_CONFIG ==
  [easy   |-> [cats |-> 4, stacks |-> 6,  emptyStacks |-> 2],
   medium |-> [cats |-> 6, stacks |-> 8,  emptyStacks |-> 2],
   hard   |-> [cats |-> 8, stacks |-> 10, emptyStacks |-> 2]]

\* cat-0 .. cat-7, in the order of the placeholderCats array
placeholderCats == [i \in 1..PoolSize |-> i - 1]

\* ------------------------------------------------------------ helpers ----
CatOf(box) == box[1]

Min(a, b) == IF a <= b THEN a ELSE b

\* array.slice(n): the elements after the first n
SliceFrom(s, n) == IF n >= Len(s) THEN <<>> ELSE SubSeq(s, n + 1, Len(s))

\* array.slice(0, n): the first n elements (fewer when the array is shorter)
SliceTo(s, n) == SubSeq(s, 1, Min(n, Len(s)))

\* the array with the element at (1-based) position p removed: splice(p, 1)
RemoveAt(s, p) == SubSeq(s, 1, p - 1) \o SubSeq(s, p + 1, Len(s))

\* ----------------------------------------------------- random outcomes ----
Tapes == [1..TapeLen -> 0..MaxDraw]

\* the k-th call of Math.random() (k counts from 0)
Draw(tape, k) == tape[(k % Len(tape)) + 1]

\* Math.floor(Math.random() * n): any index in 0..n-1
RandomIndex(v, n) == v % n

\* Math.random() < p with 0 < p < 1: either outcome
RandomBelow(v) == v % 2 = 1

\* the sequence with x inserted so that it becomes element p (1-based)
InsertAt(s, p, x) == SubSeq(s, 1, p - 1) \o <<x>> \o SubSeq(s, p, Len(s))

\* array.sort(() => Math.random() - 0.5): the comparator answers at random,
\* so the result is some permutation of the array; every permutation can
\* come out.  It is built by insertion: element i (0-based, i >= 1) is moved
\* past RandomIndex(draw, i+1) of the i elements placed before it, one draw
\* per element.  `done` is the part already placed.
RECURSIVE randomInsert(_, _, _, _)
randomInsert(done, rest, tape, k) ==
  IF rest = <<>> THEN done
  ELSE LET shift == RandomIndex(Draw(tape, k), Len(done) + 1)
       IN randomInsert(InsertAt(done, Len(done) + 1 - shift, Head(rest)),
                       Tail(rest), tape, k + 1)

RandomSort(s, tape, k) ==
  IF Len(s) = 0 THEN s ELSE randomInsert(<<Head(s)>>, Tail(s), tape, k)

\* the draws RandomSort reads
SortDraws(s) == IF Len(s) = 0 THEN 0 ELSE Len(s) - 1

\* shuffleArray (Fisher-Yates): for i = n-1 down to 1, swap [i] and [j],
\* j = floor(random * (i+1)).  i is the 0-based index, k the tape position.
RECURSIVE shuffleFrom(_, _, _, _)
shuffleFrom(a, i, tape, k) ==
  IF i < 1 THEN a
  ELSE LET j == RandomIndex(Draw(tape, k), i + 1)
           b == [a EXCEPT ![i + 1] = a[j + 1], ![j + 1] = a[i + 1]]
       IN shuffleFrom(b, i - 1, tape, k + 1)

shuffleArray(a, tape, k) == shuffleFrom(a, Len(a) - 1, tape, k)

\* -------------------------------------------------------- generation ----
\* allBoxes: MAX_STACK_SIZE boxes of each cat, in the cats' order
RECURSIVE createBoxes(_)
createBoxes(cats) ==
  IF cats = <<>> THEN <<>>
  ELSE [n \in 1..MAX_STACK_SIZE |-> <<Head(cats), n - 1>>] \o createBoxes(Tail(cats))

preMatchedPairs(d) == IF d = "easy" THEN 4 ELSE IF d = "medium" THEN 3 ELSE 2

\* remainingBoxes without the boxes of `selected` (findIndex + splice each)
RECURSIVE removeBoxes(_, _)
removeBoxes(remaining, selected) ==
  IF selected = <<>> THEN remaining
  ELSE LET hits == {p \in 1..Len(remaining) : remaining[p] = Head(selected)}
       IN IF hits = {} THEN removeBoxes(remaining, Tail(selected))
          ELSE LET p == CHOOSE q \in hits : \A h \in hits : q <= h
               IN removeBoxes(RemoveAt(remaining, p), Tail(selected))

\* the pre-matching loop; g = [organized, remaining, k]
RECURSIVE preMatch(_, _, _, _)
preMatch(g, i, pairs, tape) ==
  IF ~(i < pairs /\ Len(g.remaining) > 0) THEN g
  ELSE LET boxIndex == RandomIndex(Draw(tape, g.k), Len(g.remaining))
           catId == CatOf(g.remaining[boxIndex + 1])
           samecatBoxes == SelectSeq(g.remaining, LAMBDA box : CatOf(box) = catId)
           pairSize == Min(MaxPairSize, Len(samecatBoxes))
           selectedBoxes == SliceTo(samecatBoxes, pairSize)
       IN preMatch([organized |-> g.organized \o selectedBoxes,
                    remaining |-> removeBoxes(g.remaining, selectedBoxes),
                    k |-> g.k + 1],
                   i + 1, pairs, tape)

\* the filled stacks: stack i takes mixedBoxes[i*boxesPerStack .. +boxesPerStack-1]
fillStacks(mixedBoxes, filledStacks, boxesPerStack) ==
  [i \in 1..filledStacks |->
     LET first == (i - 1) * boxesPerStack + 1
         last == Min(i * boxesPerStack, Len(mixedBoxes))
     IN IF first > Len(mixedBoxes) THEN <<>> ELSE SubSeq(mixedBoxes, first, last)]

\* the leftover loop: while leftovers remain and stackIndex < filledStacks
\* (stackIndex is taken modulo filledStacks, so only the first test can end
\* the loop).  fuel bounds the unrolling; the result says whether it ended.
RECURSIVE distributeLeftovers(_, _, _, _, _)
distributeLeftovers(ns, leftover, stackIndex, filledStacks, fuel) ==
  IF ~(Len(leftover) > 0 /\ stackIndex < filledStacks)
    THEN [stacks |-> ns, ended |-> TRUE]
  ELSE IF fuel = 0 THEN [stacks |-> ns, ended |-> FALSE]
  ELSE LET room == Len(ns[stackIndex + 1]) < MAX_STACK_SIZE
           ns2 == IF room
                    THEN [ns EXCEPT ![stackIndex + 1] = Append(@, Head(leftover))]
                    ELSE ns
           lo2 == IF room THEN Tail(leftover) ELSE leftover
       IN distributeLeftovers(ns2, lo2, (stackIndex + 1) % filledStacks,
                              filledStacks, fuel - 1)

\* stack.sort((a, b) => a.cat.id.localeCompare(b.cat.id)): a stable sort by
\* cat id ("cat-0" < ... < "cat-7")
RECURSIVE sortByCat(_, _)
sortByCat(stack, c) ==
  IF c >= PoolSize THEN <<>>
  ELSE SelectSeq(stack, LAMBDA box : CatOf(box) = c) \o sortByCat(stack, c + 1)

\* easy mode: each filled stack is sorted with probability 0.7; g = [stacks, k]
RECURSIVE easyGrouping(_, _, _, _)
easyGrouping(g, i, filledStacks, tape) ==
  IF i >= filledStacks THEN g
  ELSE LET sorted == RandomBelow(Draw(tape, g.k))
           ns == IF sorted
                   THEN [g.stacks EXCEPT ![i + 1] = sortByCat(@, 0)]
                   ELSE g.stacks
       IN easyGrouping([stacks |-> ns, k |-> g.k + 1], i + 1, filledStacks, tape)

\* the test of a full one-cat stack never answering yes
allSameCatNever(stack) == FALSE

allSameCat(stack) == \A p \in 1..Len(stack) : CatOf(stack[p]) = CatOf(stack[1])

\* the swap without its last assignment: newStacks[r][b] keeps its box
swapBoxesOneWay(ns, i, j, r, b) ==
  [ns EXCEPT ![i + 1] = [@ EXCEPT ![j + 1] = ns[r + 1][b + 1]]]

\* the swap without its first assignment: newStacks[i][j] keeps its box
swapBoxesKeepingFirst(ns, i, j, r, b) ==
  [ns EXCEPT ![r + 1] = [@ EXCEPT ![b + 1] = ns[i + 1][j + 1]]]

\* swap newStacks[i][j] with newStacks[r][b] (all 0-based, i # r)
swapBoxes(ns, i, j, r, b) ==
  [ns EXCEPT ![i + 1] = [@ EXCEPT ![j + 1] = ns[r + 1][b + 1]],
             ![r + 1] = [@ EXCEPT ![b + 1] = ns[i + 1][j + 1]]]

\* medium/hard step 1: shuffle each filled stack; a full stack of one cat
\* swaps its top box with a random box of another filled stack
RECURSIVE avoidFullStacks(_, _, _, _)
avoidFullStacks(g, i, filledStacks, tape) ==
  IF i >= filledStacks THEN g
  ELSE LET shuffled == [g.stacks EXCEPT ![i + 1] = RandomSort(@, tape, g.k)]
           st == shuffled[i + 1]
           k1 == g.k + SortDraws(g.stacks[i + 1])
       IN IF Len(st) > 0 /\ allSameCat(st) /\ Len(st) = MAX_STACK_SIZE
            THEN LET randomStackIndex ==
                       (i + 1 + RandomIndex(Draw(tape, k1), filledStacks - 1)) % filledStacks
                     randomBoxIndex ==
                       RandomIndex(Draw(tape, k1 + 1), Len(shuffled[randomStackIndex + 1]))
                 IN avoidFullStacks(
                      [stacks |-> swapBoxes(shuffled, i, 0, randomStackIndex, randomBoxIndex),
                       k |-> k1 + 2],
                      i + 1, filledStacks, tape)
            ELSE avoidFullStacks([stacks |-> shuffled, k |-> k1], i + 1, filledStacks, tape)

\* step 2: for every stack i and position j >= 1 whose box has the cat of
\* the box above it, with probability breakupProbability swap it with a
\* random box of another filled stack
RECURSIVE breakUp(_, _, _, _, _)
breakUp(g, i, j, filledStacks, tape) ==
  IF i >= filledStacks THEN g
  ELSE IF j >= Len(g.stacks[i + 1]) THEN breakUp(g, i + 1, 1, filledStacks, tape)
  ELSE IF CatOf(g.stacks[i + 1][j + 1]) # CatOf(g.stacks[i + 1][j])
    THEN breakUp(g, i, j + 1, filledStacks, tape)
  ELSE IF ~RandomBelow(Draw(tape, g.k))
    THEN breakUp([g EXCEPT !.k = @ + 1], i, j + 1, filledStacks, tape)
  ELSE LET randomStackIndex ==
             (i + 1 + RandomIndex(Draw(tape, g.k + 1), filledStacks - 1)) % filledStacks
       IN IF Len(g.stacks[randomStackIndex + 1]) > 0
            THEN LET randomBoxIndex ==
                       RandomIndex(Draw(tape, g.k + 2), Len(g.stacks[randomStackIndex + 1]))
                 IN breakUp([stacks |-> swapBoxes(g.stacks, i, j, randomStackIndex, randomBoxIndex),
                             k |-> g.k + 3],
                            i, j + 1, filledStacks, tape)
            ELSE breakUp([g EXCEPT !.k = @ + 2], i, j + 1, filledStacks, tape)

\* the number of boxes of cat c on the board (catCounts)
RECURSIVE catCount(_, _)
catCount(ns, c) ==
  IF ns = <<>> THEN 0
  ELSE Len(SelectSeq(Head(ns), LAMBDA box : CatOf(box) = c)) + catCount(Tail(ns), c)

\* the post-generation check: an oversized stack or too many boxes of a cat
invalidPuzzle(ns) ==
  \/ \E i \in 1..Len(ns) : Len(ns[i]) > MAX_STACK_SIZE
  \/ \E c \in 0..(PoolSize - 1) : catCount(ns, c) > MAX_STACK_SIZE

\* the board built by one pass of initializeGame for cats `availableCats`,
\* difficulty d, reading the tape from position k: [stacks, k, ended]
buildStacks(availableCats, d, tape, k) ==
  LET config == DIFFICULTY_CONFIG[d]
      allBoxes == createBoxes(availableCats)
      filledStacks == config.stacks - config.emptyStacks
      ceilDiv == (Len(allBoxes) + filledStacks - 1) \div filledStacks
      boxesPerStack == Min(MAX_STACK_SIZE, ceilDiv)
      \* from the distribution on: pm is the pre-matching's result, dl the
      \* leftover loop's
      arrange(pm, dl) ==
        LET withEmpty == dl.stacks \o [e \in 1..config.emptyStacks |-> <<>>]
            g0 == [stacks |-> withEmpty, k |-> pm.k]
            g1 == IF d = "easy" THEN easyGrouping(g0, 0, filledStacks, tape) ELSE g0
            g2 == IF d # "easy" THEN avoidFullStacks(g1, 0, filledStacks, tape) ELSE g1
            result(g3) == [stacks |-> g3.stacks, k |-> g3.k, ended |-> dl.ended]
        IN result(breakUp(g2, 0, 1, filledStacks, tape))
      \* from the mixed boxes on
      distribute(pm, mixedBoxes) ==
        LET firstAttempt == fillStacks(mixedBoxes, filledStacks, boxesPerStack)
            leftoverBoxes == SliceFrom(mixedBoxes, filledStacks * boxesPerStack)
        IN arrange(pm, distributeLeftovers(firstAttempt, leftoverBoxes, 0, filledStacks,
                                           (Len(leftoverBoxes) + 1) * filledStacks))
      mix(pm) == distribute(pm, pm.organized \o pm.remaining)
      shuffledBoxes == RandomSort(allBoxes, tape, k)
  IN mix(preMatch([organized |-> <<>>, remaining |-> shuffledBoxes,
                   k |-> k + SortDraws(allBoxes)],
                  0, preMatchedPairs(d), tape))

\* initializeGame up to its setState calls: the board it installs.  An
\* invalid puzzle is regenerated (the recursive call), reading on from the
\* tape; `retries` counts the regenerations still unrolled.
\* Result: [stacks, installed]; installed is FALSE when the leftover loop or
\* the regeneration did not end within the unrolling.
RECURSIVE generate(_, _, _, _, _)
generate(availableCats, d, tape, k, retries) ==
  LET validated(b) ==
        IF ~b.ended THEN [stacks |-> b.stacks, installed |-> FALSE]
        ELSE IF invalidPuzzle(b.stacks)
          THEN IF retries = 0 THEN [stacks |-> b.stacks, installed |-> FALSE]
               ELSE generate(availableCats, d, tape, b.k, retries - 1)
        ELSE [stacks |-> b.stacks, installed |-> TRUE]
  IN validated(buildStacks(availableCats, d, tape, k))

\* ------------------------------------------------------- move engine ----
\* the maximal run of boxes at the top of the stack with the top box's cat
RECURSIVE matchingRun(_, _, _)
matchingRun(stack, topCat, i) ==
  IF i > Len(stack) \/ CatOf(stack[i]) # topCat THEN <<>>
  ELSE <<stack[i]>> \o matchingRun(stack, topCat, i + 1)

getMatchingTopBoxes(stack) ==
  IF Len(stack) = 0 THEN <<>>
  ELSE <<stack[1]>> \o matchingRun(stack, CatOf(stack[1]), 2)

\* ---------------------------------------------------- state evaluator ----
eachStackValid(currentStacks) ==
  \A i \in 1..Len(currentStacks) :
    Len(currentStacks[i]) = 0 \/ allSameCat(currentStacks[i])

\* the forEach adding each stack's length to its top cat's count
RECURSIVE countCatsAdding(_, _, _)
countCatsAdding(currentStacks, i, catMap) ==
  IF i > Len(currentStacks) THEN catMap
  ELSE LET stack == currentStacks[i]
       IN IF Len(stack) > 0 /\ CatOf(stack[1]) \in DOMAIN catMap
            THEN countCatsAdding(currentStacks, i + 1,
                                 [catMap EXCEPT ![CatOf(stack[1])] = @ + Len(stack)])
            ELSE countCatsAdding(currentStacks, i + 1, catMap)

\* catMap after the forEach over the stacks, starting from stack i
RECURSIVE countCats(_, _, _)
countCats(currentStacks, i, catMap) ==
  IF i > Len(currentStacks) THEN catMap
  ELSE LET stack == currentStacks[i]
       IN IF Len(stack) > 0 /\ CatOf(stack[1]) \in DOMAIN catMap
            THEN LET c == CatOf(stack[1])
                     v == IF catMap[c] = MAX_STACK_SIZE THEN -1 ELSE Len(stack)
                 IN countCats(currentStacks, i + 1, [catMap EXCEPT ![c] = v])
            ELSE countCats(currentStacks, i + 1, catMap)

\* the value checkCompletion returns (and stores in isComplete)
checkCompletion(currentStacks, cats) ==
  IF ~eachStackValid(currentStacks) THEN FALSE
  ELSE LET inPlay == {cats[i] : i \in 1..Len(cats)}
           catMap == countCats(currentStacks, 1, [c \in inPlay |-> 0])
       IN \A c \in inPlay : catMap[c] = MAX_STACK_SIZE

\* checkForValidMoves with `<` for `<=` in the room test
checkForValidMovesStrictRoom(currentStacks) ==
  IF \E i \in 1..Len(currentStacks) : Len(currentStacks[i]) = 0 THEN TRUE
  ELSE \E fromStackIndex \in 1..Len(currentStacks) :
         /\ Len(currentStacks[fromStackIndex]) # 0
         /\ LET matchingBoxes == getMatchingTopBoxes(currentStacks[fromStackIndex])
            IN \E toStackIndex \in 1..Len(currentStacks) :
                 /\ fromStackIndex # toStackIndex
                 /\ LET destStack == currentStacks[toStackIndex]
                    IN /\ Len(destStack) + Len(matchingBoxes) < MAX_STACK_SIZE
                       /\ \/ Len(destStack) = 0
                          \/ CatOf(destStack[1]) = CatOf(matchingBoxes[1])

\* checkForValidMoves without the test of the destination's top cat
checkForValidMovesAnyCat(currentStacks) ==
  IF \E i \in 1..Len(currentStacks) : Len(currentStacks[i]) = 0 THEN TRUE
  ELSE \E fromStackIndex \in 1..Len(currentStacks) :
         /\ Len(currentStacks[fromStackIndex]) # 0
         /\ \E toStackIndex \in 1..Len(currentStacks) :
              /\ fromStackIndex # toStackIndex
              /\ Len(currentStacks[toStackIndex])
                   + Len(getMatchingTopBoxes(currentStacks[fromStackIndex])) <= MAX_STACK_SIZE

checkForValidMoves(currentStacks) ==
  IF \E i \in 1..Len(currentStacks) : Len(currentStacks[i]) = 0 THEN TRUE
  ELSE \E fromStackIndex \in 1..Len(currentStacks) :
         /\ Len(currentStacks[fromStackIndex]) # 0
         /\ LET matchingBoxes == getMatchingTopBoxes(currentStacks[fromStackIndex])
            IN \E toStackIndex \in 1..Len(currentStacks) :
                 /\ fromStackIndex # toStackIndex
                 /\ LET destStack == currentStacks[toStackIndex]
                    IN /\ Len(destStack) + Len(matchingBoxes) <= MAX_STACK_SIZE
                       /\ \/ Len(destStack) = 0
                          \/ CatOf(destStack[1]) = CatOf(matchingBoxes[1])

\* ------------------------------------------------------------- state ----
VARIABLES
  stacks,              \* the board
  selectedStackIndex,  \* 0 for null
  moveCount,
  isComplete,
  isLost,
  moves,               \* the history: records [from, to, count]
  animatingBoxes,      \* ids of the boxes shown moving
  isAnimating,
  difficulty,
  activeCats,
  timer,               \* the pending setTimeout callback and what it closes over
  onCompleteCalls,     \* calls of the onComplete prop (a caller gave one) in this session
  fault,               \* the last handler call threw a TypeError
  rejection,           \* why the last click was refused as a move ("none": it was not)
  trail,               \* how the session began, then the last accepted move and what followed it
  ops                  \* accepted moves and undos of this session

vars == <<stacks, selectedStackIndex, moveCount, isComplete, isLost, moves,
          animatingBoxes, isAnimating, difficulty, activeCats, timer,
          onCompleteCalls, fault, rejection, trail, ops>>

NULL == 0

NoTimer ==
  [pending |-> FALSE, from |-> 0, to |-> 0, stacks |-> <<>>, cats |-> <<>>,
   caller |-> "none", stuck |-> FALSE]

NoTrail == [phase |-> "none", before |-> <<>>]

\* the timer putting the group below the destination's boxes
movedStacksToBottom(captured, fromStackIndex, toStackIndex) ==
  LET sourceStack == captured[fromStackIndex]
      matchingBoxes == getMatchingTopBoxes(sourceStack)
      removed == [captured EXCEPT ![fromStackIndex] = SliceFrom(sourceStack, Len(matchingBoxes))]
  IN [removed EXCEPT ![toStackIndex] = removed[toStackIndex] \o matchingBoxes]

\* the timer without "remove them from source": the group is copied
movedStacksKeepingSource(captured, fromStackIndex, toStackIndex) ==
  LET matchingBoxes == getMatchingTopBoxes(captured[fromStackIndex])
  IN [captured EXCEPT ![toStackIndex] = matchingBoxes \o captured[toStackIndex]]

\* the stacks a timer with this closure installs: the matching top group of
\* the captured source stack goes on top of the captured destination stack
movedStacks(captured, fromStackIndex, toStackIndex) ==
  LET sourceStack == captured[fromStackIndex]
      matchingBoxes == getMatchingTopBoxes(sourceStack)
      removed == [captured EXCEPT ![fromStackIndex] = SliceFrom(sourceStack, Len(matchingBoxes))]
  IN [removed EXCEPT ![toStackIndex] = matchingBoxes \o removed[toStackIndex]]

\* animateBoxMovement up to setTimeout: the flags and the scheduled callback
\* (`caller` notes which handler scheduled it, `stuck` whether the session
\* was stuck then)
animateBoxMovement(boxIds, fromStackIndex, toStackIndex, caller) ==
  /\ isAnimating' = TRUE
  /\ animatingBoxes' = boxIds
  /\ timer' = [pending |-> TRUE, from |-> fromStackIndex, to |-> toStackIndex,
               stacks |-> stacks, cats |-> activeCats,
               caller |-> caller, stuck |-> isLost]

\* the setState calls that end initializeGame
\* the setState calls without setIsLost(false)
installGameKeepingLost(newStacks) ==
  /\ stacks' = newStacks
  /\ selectedStackIndex' = NULL
  /\ moveCount' = 0
  /\ isComplete' = FALSE
  /\ isLost' = isLost
  /\ moves' = <<>>
  /\ animatingBoxes' = <<>>
  /\ isAnimating' = FALSE

\* the setState calls without setMoveCount(0)
installGameKeepingCount(newStacks) ==
  /\ stacks' = newStacks
  /\ selectedStackIndex' = NULL
  /\ moveCount' = moveCount
  /\ isComplete' = FALSE
  /\ isLost' = FALSE
  /\ moves' = <<>>
  /\ animatingBoxes' = <<>>
  /\ isAnimating' = FALSE

installGame(newStacks) ==
  /\ stacks' = newStacks
  /\ selectedStackIndex' = NULL
  /\ moveCount' = 0
  /\ isComplete' = FALSE
  /\ isLost' = FALSE
  /\ moves' = <<>>
  /\ animatingBoxes' = <<>>
  /\ isAnimating' = FALSE

MaxRetries == 1

\* the cats of a new game: shuffleArray(placeholderCats).slice(0, config.cats)
gameCats(d, tape) == SliceTo(shuffleArray(placeholderCats, tape, 0), DIFFICULTY_CONFIG[d].cats)

\* a new game for difficulty d under the random outcomes of `tape`:
\* initializeGame reads the tape after shuffleArray
newGame(d, tape) ==
  LET game(cats, g) ==
        [difficulty |-> d, cats |-> cats, stacks |-> g.stacks, installed |-> g.installed]
      started(cats) == game(cats, generate(cats, d, tape, PoolSize - 1, MaxRetries))
  IN started(gameCats(d, tape))

\* the new games of every difficulty and tape
NewGames == {newGame(d, tape) : d \in Difficulty, tape \in Tapes}

\* ----------------------------------------------------------- actions ----
\* the mounted component: useState defaults, then the effect has run
Init ==
  \E g \in NewGames :
    /\ g.installed
    /\ difficulty = g.difficulty
    /\ activeCats = g.cats
    /\ stacks = g.stacks
    /\ selectedStackIndex = NULL
    /\ moveCount = 0
    /\ isComplete = FALSE
    /\ isLost = FALSE
    /\ moves = <<>>
    /\ animatingBoxes = <<>>
    /\ isAnimating = FALSE
    /\ timer = NoTimer
    /\ onCompleteCalls = 0
    /\ fault = FALSE
    /\ rejection = "none"
    /\ trail = NoTrail
    /\ ops = 0

\* the effect on [difficulty, loading], and the body of handleReset
startGame(d) ==
  \E g \in NewGames :
     /\ g.difficulty = d
     /\ activeCats' = g.cats
     /\ IF g.installed
          THEN installGame(g.stacks)
          ELSE UNCHANGED <<stacks, selectedStackIndex, moveCount, isComplete,
                           isLost, moves, animatingBoxes, isAnimating>>
     /\ onCompleteCalls' = 0
     /\ trail' = [phase |-> IF isComplete THEN "newFromComplete"
                            ELSE IF isLost THEN "newFromStuck"
                            ELSE "newFromPlaying",
                  before |-> <<>>]
     /\ fault' = FALSE
     /\ rejection' = "none"
     /\ ops' = 0
     /\ UNCHANGED timer

\* handleReset without its first line
handleResetWhileAnimating == startGame(difficulty) /\ UNCHANGED difficulty

handleReset ==
  IF isAnimating THEN UNCHANGED vars
  ELSE startGame(difficulty) /\ UNCHANGED difficulty

\* the difficulty buttons are disabled while isAnimating; setting the
\* current difficulty again changes no state and runs no effect
handleSetDifficulty(newDifficulty) ==
  /\ ~isAnimating
  /\ IF newDifficulty = difficulty THEN UNCHANGED vars
     ELSE /\ difficulty' = newDifficulty
          /\ startGame(newDifficulty)

\* the click handler with `<` for `<=` in the room test
clickOutcomeStrictRoom(currentStacks, fromStackIndex, stackIndex) ==
  LET matchingBoxes == getMatchingTopBoxes(currentStacks[fromStackIndex])
      destinationStack == currentStacks[stackIndex]
  IN IF fromStackIndex = stackIndex THEN "sameStack"
     ELSE IF Len(destinationStack) + Len(matchingBoxes) < MAX_STACK_SIZE
       THEN IF Len(destinationStack) > 0
              THEN IF Len(matchingBoxes) = 0 THEN "throws"
                   ELSE IF CatOf(destinationStack[1]) # CatOf(matchingBoxes[1])
                     THEN "catMismatch"
                   ELSE "move"
              ELSE "move"
     ELSE "noRoom"

\* the click handler without the test of the destination's top cat
clickOutcomeAnyCat(currentStacks, fromStackIndex, stackIndex) ==
  LET matchingBoxes == getMatchingTopBoxes(currentStacks[fromStackIndex])
      destinationStack == currentStacks[stackIndex]
  IN IF fromStackIndex = stackIndex THEN "sameStack"
     ELSE IF Len(destinationStack) + Len(matchingBoxes) <= MAX_STACK_SIZE THEN "move"
     ELSE "noRoom"

\* the branch handleStackClick takes for a click on stackIndex while
\* fromStackIndex is selected
clickOutcome(currentStacks, fromStackIndex, stackIndex) ==
  LET sourceStack == currentStacks[fromStackIndex]
      matchingBoxes == getMatchingTopBoxes(sourceStack)
      destinationStack == currentStacks[stackIndex]
  IN IF fromStackIndex = stackIndex THEN "sameStack"
     ELSE IF Len(destinationStack) + Len(matchingBoxes) <= MAX_STACK_SIZE
       THEN IF Len(destinationStack) > 0
              THEN \* matchingBoxes[0] is undefined for an empty source:
                   \* reading .cat of it throws a TypeError
                   IF Len(matchingBoxes) = 0 THEN "throws"
                   ELSE IF CatOf(destinationStack[1]) # CatOf(matchingBoxes[1])
                     THEN "catMismatch"
                   ELSE "move"
              ELSE "move"
     ELSE "noRoom"

\* the click's first line without the test of isComplete
clickBlockedUnlessComplete == isLost \/ isAnimating

\* the first line of handleStackClick: the click returns at once
clickBlocked == isComplete \/ isLost \/ isAnimating

handleStackClick(stackIndex) ==
  IF clickBlocked THEN UNCHANGED vars
  ELSE IF selectedStackIndex = NULL
    THEN /\ selectedStackIndex' =
              IF Len(stacks[stackIndex]) > 0 THEN stackIndex ELSE selectedStackIndex
         /\ fault' = FALSE
         /\ rejection' = "none"
         /\ UNCHANGED <<stacks, moveCount, isComplete, isLost, moves, animatingBoxes,
                        isAnimating, difficulty, activeCats, timer, onCompleteCalls, trail, ops>>
  ELSE LET fromStackIndex == selectedStackIndex
           matchingBoxes == getMatchingTopBoxes(stacks[fromStackIndex])
           outcome == clickOutcome(stacks, fromStackIndex, stackIndex)
       IN IF outcome = "throws"
            THEN /\ fault' = TRUE
                 /\ rejection' = "none"
                 /\ UNCHANGED <<stacks, selectedStackIndex, moveCount, isComplete, isLost,
                                moves, animatingBoxes, isAnimating, difficulty, activeCats,
                                timer, onCompleteCalls, trail, ops>>
          ELSE IF outcome = "move"
            THEN /\ ops < MaxOps
                 /\ ops' = ops + 1
                 /\ moveCount' = moveCount + 1
                 /\ moves' = Append(moves, [from |-> fromStackIndex, to |-> stackIndex,
                                            count |-> Len(matchingBoxes)])
                 /\ animateBoxMovement(matchingBoxes, fromStackIndex, stackIndex, "move")
                 /\ selectedStackIndex' = NULL
                 /\ fault' = FALSE
                 /\ rejection' = "none"
                 /\ trail' = IF Len(matchingBoxes) > 0
                               THEN [phase |-> "moving", before |-> stacks]
                               ELSE NoTrail
                 /\ UNCHANGED <<stacks, isComplete, isLost, difficulty, activeCats,
                                onCompleteCalls>>
          ELSE \* the same stack, no room, or another cat on top: deselect
               /\ selectedStackIndex' = NULL
               /\ fault' = FALSE
               /\ rejection' = outcome
               /\ UNCHANGED <<stacks, moveCount, isComplete, isLost, moves, animatingBoxes,
                              isAnimating, difficulty, activeCats, timer, onCompleteCalls,
                              trail, ops>>

\* undoMove's first line without the test of isComplete
undoBlockedUnlessComplete == Len(moves) = 0 \/ isAnimating

\* the first line of undoMove: the request returns at once
undoBlocked == Len(moves) = 0 \/ isComplete \/ isAnimating

\* undoMove past its first line: the last record is undone
undoLastMove ==
  LET lastMove == moves[Len(moves)]
      boxesToMoveBack == SliceTo(stacks[lastMove.to], lastMove.count)
  IN /\ ops < MaxOps
     /\ ops' = ops + 1
     /\ animateBoxMovement(boxesToMoveBack, lastMove.to, lastMove.from, "undo")
     /\ moveCount' = moveCount - 1
     /\ moves' = SubSeq(moves, 1, Len(moves) - 1)
     /\ isComplete' = FALSE
     /\ isLost' = FALSE
     /\ fault' = FALSE
     /\ rejection' = "none"
     /\ trail' = IF trail.phase = "moved"
                   THEN [trail EXCEPT !.phase = "undoing"]
                   ELSE NoTrail
     /\ UNCHANGED <<stacks, selectedStackIndex, difficulty, activeCats, onCompleteCalls>>

\* undoMove without the test of moves.length: with an empty history lastMove
\* is undefined and reading lastMove.to throws a TypeError
undoMoveHistoryUnchecked ==
  IF isComplete \/ isAnimating THEN UNCHANGED vars
  ELSE IF Len(moves) = 0
    THEN /\ fault' = TRUE
         /\ UNCHANGED <<stacks, selectedStackIndex, moveCount, isComplete, isLost, moves,
                        animatingBoxes, isAnimating, difficulty, activeCats, timer,
                        onCompleteCalls, rejection, trail, ops>>
  ELSE undoLastMove

undoMove ==
  IF undoBlocked THEN UNCHANGED vars
  ELSE undoLastMove

\* the setTimeout callback of animateBoxMovement
animationTimeout ==
  /\ timer.pending
  /\ LET newStacks == movedStacks(timer.stacks, timer.from, timer.to)
         isGameComplete == checkCompletion(newStacks, timer.cats)
     IN /\ stacks' = newStacks
        /\ animatingBoxes' = <<>>
        /\ isAnimating' = FALSE
        /\ isComplete' = isGameComplete
        /\ onCompleteCalls' = IF isGameComplete THEN onCompleteCalls + 1 ELSE onCompleteCalls
        /\ isLost' = IF ~isGameComplete /\ ~checkForValidMoves(newStacks) THEN TRUE ELSE isLost
  /\ timer' = NoTimer
  /\ trail' = IF trail.phase = "moving" THEN [trail EXCEPT !.phase = "moved"]
              ELSE IF trail.phase = "undoing" THEN [trail EXCEPT !.phase = "undone"]
              ELSE trail
  /\ fault' = FALSE
  /\ rejection' = "none"
  /\ UNCHANGED <<selectedStackIndex, moveCount, moves, difficulty, activeCats, ops>>

Next ==
  \/ \E stackIndex \in 1..Len(stacks) : handleStackClick(stackIndex)
  \/ undoMove
  \/ handleReset
  \/ \E newDifficulty \in Difficulty : handleSetDifficulty(newDifficulty)
  \/ animationTimeout

Spec == Init /\ [][Next]_vars

\* One outcome of the random calls of a hard game: the cats stay in pool
\* order (7 draws), the 32 boxes are sorted into the order laid out below
\* (31 draws), the two pre-matched groups are those of the first and fourth
\* box (2 draws), the second stack alone is reshuffled (8 * 3 draws), and
\* the break-up step swaps the second box of stack 0 with the top of stack 3
\* and the last box of stack 1 with the last of stack 2, leaving the other
\* four adjacent pairs alone (10 draws).
HardTape ==
  <<7, 6, 5, 4, 3, 2, 1>> \o
  <<0, 0, 0, 3, 3, 2, 1, 6, 5, 0, 0, 11, 8, 2, 2, 12,
    7, 6, 2, 20, 20, 20, 13, 9, 9, 9, 3, 25, 25, 25, 0>> \o
  <<0, 0>> \o
  <<0, 0, 0,  0, 2, 2,  0, 0, 0,  0, 0, 0,  0, 0, 0,  0, 0, 0,  0, 0, 0,  0, 0, 0>> \o
  <<1, 2, 0,  1, 0, 3,  0,  0,  0,  0>>

HardGame == newGame("hard", HardTape)

\* the component mounted with initialDifficulty 'hard' under HardTape
HardInit ==
  /\ HardGame.installed
  /\ difficulty = HardGame.difficulty
  /\ activeCats = HardGame.cats
  /\ stacks = HardGame.stacks
  /\ selectedStackIndex = NULL
  /\ moveCount = 0
  /\ isComplete = FALSE
  /\ isLost = FALSE
  /\ moves = <<>>
  /\ animatingBoxes = <<>>
  /\ isAnimating = FALSE
  /\ timer = NoTimer
  /\ onCompleteCalls = 0
  /\ fault = FALSE
  /\ rejection = "none"
  /\ trail = NoTrail
  /\ ops = 0

HardSpec == HardInit /\ [][Next]_vars


\* One outcome of the random calls of an easy game: the cats stay in pool
\* order (7 draws), the sort leaves the 16 boxes in creation order (15
\* draws), every pre-matching draw picks the first remaining box (4 draws),
\* no stack is sorted again (4 draws), and the break-up step swaps only the
\* last box of stack 2 with the last box of stack 3 (13 draws).  The board is
\* [a,a,a,a], [b,b,b,b], [c,c,c,d], [d,d,d,c], [], [].
NearTape ==
  <<7, 6, 5, 4, 3, 2, 1>> \o
  <<0, 0, 0, 0, 0, 0, 0, 0, 0, 0, 0, 0, 0, 0, 0>> \o
  <<0, 0, 0, 0>> \o
  <<0, 0, 0, 0>> \o
  <<0, 0, 0,  0, 0, 0,  0, 0, 1, 0, 3,  0, 0>>

NearGame == newGame("easy", NearTape)

\* the component mounted with initialDifficulty 'easy' under NearTape
NearInit ==
  /\ NearGame.installed
  /\ difficulty = NearGame.difficulty
  /\ activeCats = NearGame.cats
  /\ stacks = NearGame.stacks
  /\ selectedStackIndex = NULL
  /\ moveCount = 0
  /\ isComplete = FALSE
  /\ isLost = FALSE
  /\ moves = <<>>
  /\ animatingBoxes = <<>>
  /\ isAnimating = FALSE
  /\ timer = NoTimer
  /\ onCompleteCalls = 0
  /\ fault = FALSE
  /\ rejection = "none"
  /\ trail = NoTrail
  /\ ops = 0

NearSpec == NearInit /\ [][Next]_vars

\* One outcome of the random calls of a hard game whose board is, top first,
\* [0,0,2,2], [3,2,5,3], [3,5,5,6], [5,4,6,4], [4,1,6,1], [4,6,1,3],
\* [1,7,2,7], [7,0,7,0], [], [].
UnderwayTape == <<0, 0, 1>>

UnderwayGame == newGame("hard", UnderwayTape)

\* the first move of that session, the two boxes on top of stack 1 onto the
\* empty stack 9, as handleStackClick records it
UnderwayMove ==
  [from |-> 1, to |-> 9, count |-> Len(getMatchingTopBoxes(UnderwayGame.stacks[1]))]

\* the session of UnderwayGame once its first move has been accepted and
\* applied by the timer; MaxOps further operations are followed from here
UnderwayInit ==
  /\ UnderwayGame.installed
  /\ clickOutcome(UnderwayGame.stacks, UnderwayMove.from, UnderwayMove.to) = "move"
  /\ difficulty = UnderwayGame.difficulty
  /\ activeCats = UnderwayGame.cats
  /\ stacks = movedStacks(UnderwayGame.stacks, UnderwayMove.from, UnderwayMove.to)
  /\ selectedStackIndex = NULL
  /\ moveCount = 1
  /\ isComplete = checkCompletion(stacks, activeCats)
  /\ isLost = (~isComplete /\ ~checkForValidMoves(stacks))
  /\ moves = <<UnderwayMove>>
  /\ animatingBoxes = <<>>
  /\ isAnimating = FALSE
  /\ timer = NoTimer
  /\ onCompleteCalls = 0
  /\ fault = FALSE
  /\ rejection = "none"
  /\ trail = [phase |-> "moved", before |-> UnderwayGame.stacks]
  /\ ops = 0

UnderwaySpec == UnderwayInit /\ [][Next]_vars


\* ------------------------------------------------------------ claims ----
\* no board mutation has been accepted in this session: the board is the
\* one generation installed
FreshGame == ops = 0

\* the positions <<i, j>> of the board
Positions(board) == UNION {{<<i, j>> : j \in 1..Len(board[i])} : i \in 1..Len(board)}

\* the boxes created for the cats in play
BoxesInPlay == {<<activeCats[c], n>> : c \in 1..Len(activeCats), n \in 0..(MAX_STACK_SIZE - 1)}

\* C1: a legal move that has been applied and then undone leaves the board
\* it started from (same boxes in the same order in every stack).
C1_UndoRestoresBoard == trail.phase = "undone" => stacks = trail.before

\* C2: no stack ever holds more than MAX_STACK_SIZE boxes.
C2_StackWithinCapacity == \A i \in 1..Len(stacks) : Len(stacks[i]) <= MAX_STACK_SIZE

\* the boxes of the board, stack after stack
RECURSIVE BoxesOnBoard(_)
BoxesOnBoard(board) ==
  IF board = <<>> THEN <<>> ELSE Head(board) \o BoxesOnBoard(Tail(board))

\* every box in play is at exactly one position of the board, and nothing
\* else is on it
ItemsConserved ==
  LET onBoard == BoxesOnBoard(stacks)
  IN /\ Len(onBoard) = Cardinality(BoxesInPlay)
     /\ {onBoard[p] : p \in 1..Len(onBoard)} = BoxesInPlay
     /\ \A c \in 1..Len(activeCats) : catCount(stacks, activeCats[c]) = MAX_STACK_SIZE

\* a step that changes the board is the animation timer of an accepted
\* move or undo, or the start of a new session
BoardChangesOnlyByEngine ==
  stacks' # stacks =>
    \/ timer.pending /\ ~timer'.pending /\ timer.caller \in {"move", "undo"}
    \/ ops' = 0 /\ moves' = <<>> /\ ~isAnimating /\ ~timer.pending

\* C3: boxes are conserved (each box in play is on the board exactly once,
\* so each cat in play has exactly MAX_STACK_SIZE boxes), and within a
\* session the board changes only by an accepted move or undo.
C3_ItemsConserved == []ItemsConserved /\ [][BoardChangesOnlyByEngine]_vars

C3_Witness ==
  /\ trail.phase = "undone"
  /\ stacks # trail.before
  /\ ItemsConserved

\* C4: the board generation installs has config.stacks stacks, of which
\* config.emptyStacks are empty and the others filled, holds each box of each
\* selected cat exactly once (MAX_STACK_SIZE per cat), has no stack above
\* MAX_STACK_SIZE, and cats * MAX_STACK_SIZE boxes in all.
C4_GeneratedBoard ==
  FreshGame =>
    LET config == DIFFICULTY_CONFIG[difficulty]
        empties == {i \in 1..Len(stacks) : Len(stacks[i]) = 0}
    IN /\ Len(stacks) = config.stacks
       /\ Cardinality(empties) = config.emptyStacks
       /\ Len(activeCats) = config.cats
       /\ Cardinality({activeCats[c] : c \in 1..Len(activeCats)}) = config.cats
       /\ ItemsConserved
       /\ \A i \in 1..Len(stacks) : Len(stacks[i]) <= MAX_STACK_SIZE
       /\ Cardinality(Positions(stacks)) = config.cats * MAX_STACK_SIZE

\* a fresh hard board on which generation mixed the cats: 8 full stacks,
\* one of them with boxes of three cats, and 2 empty stacks
C4_Witness ==
  /\ FreshGame
  /\ difficulty = "hard"
  /\ Cardinality({i \in 1..Len(stacks) : Len(stacks[i]) = MAX_STACK_SIZE}) = 8
  /\ Cardinality({i \in 1..Len(stacks) : Len(stacks[i]) = 0}) = 2
  /\ \E i \in 1..Len(stacks) :
       Cardinality({CatOf(stacks[i][p]) : p \in 1..Len(stacks[i])}) >= 3

\* the boards one legal group move away: a non-empty source whose click is
\* taken as a move, applied as the timer applies it
LegalSuccessors(board) ==
  {movedStacks(board, f, t) :
     <<f, t>> \in {ft \in (1..Len(board)) \X (1..Len(board)) :
                     /\ Len(board[ft[1]]) > 0
                     /\ clickOutcome(board, ft[1], ft[2]) = "move"}}

\* some board of `frontier`, or one reachable from it by legal group moves
\* through boards outside `seen`, is complete
RECURSIVE ReachesComplete(_, _, _)
ReachesComplete(frontier, seen, cats) ==
  IF \E b \in frontier : checkCompletion(b, cats) THEN TRUE
  ELSE LET next == UNION {LegalSuccessors(b) : b \in frontier} \ seen
       IN IF next = {} THEN FALSE
          ELSE ReachesComplete(next, seen \cup next, cats)

Solvable(board, cats) == ReachesComplete({board}, {board}, cats)

\* C5: every generated board is solvable: some sequence of legal group moves
\* leads from it to a board on which checkCompletion is true.
C5_GeneratedBoardSolvable == FreshGame => Solvable(stacks, activeCats)

\* C6: a freshly generated board is never complete.
C6_FreshBoardNotComplete == FreshGame => ~checkCompletion(stacks, activeCats)

\* C10: no click on a destination with an empty source selected is taken as
\* a move or faults: no record with count 0 enters the history and no
\* handler throws.
C10_EmptySourceRejected ==
  /\ ~fault
  /\ \A m \in 1..Len(moves) : moves[m].count > 0


\* the session is Playing and no animation is in flight
Playing == ~isComplete /\ ~isLost /\ ~isAnimating

\* the size of the group at the top of a stack: the longest run of boxes
\* from the top that have the top box's cat (0 for an empty stack)
TopGroupSize(stack) ==
  IF Len(stack) = 0 THEN 0
  ELSE CHOOSE n \in 1..Len(stack) :
         /\ \A p \in 1..n : CatOf(stack[p]) = CatOf(stack[1])
         /\ n = Len(stack) \/ CatOf(stack[n + 1]) # CatOf(stack[1])

\* the legality predicate: an empty stack or a top box of the group's cat,
\* and room for the whole group
LegalMove(board, from, to) ==
  /\ Len(board[to]) = 0 \/ CatOf(board[to][1]) = CatOf(board[from][1])
  /\ Len(board[to]) + TopGroupSize(board[from]) <= MAX_STACK_SIZE

\* a click on stack `to` with a non-empty stack selected: a move attempt
MoveAttempt(to) ==
  /\ Playing
  /\ selectedStackIndex # NULL
  /\ to # selectedStackIndex
  /\ Len(stacks[selectedStackIndex]) > 0

\* a step within the session: a click never lowers the session's counter of
\* mutations, a new game resets it
SessionGoesOn == ops' >= ops

C7_State ==
  \A to \in 1..Len(stacks) :
    MoveAttempt(to) =>
      (clickOutcome(stacks, selectedStackIndex, to) = "move"
         <=> LegalMove(stacks, selectedStackIndex, to))

\* the step starts an animation and appends a record exactly when a move
\* from the selected stack to `to` is legal
AcceptedAsLegal(to) ==
  /\ isAnimating' <=> LegalMove(stacks, selectedStackIndex, to)
  /\ Len(moves') = Len(moves) + 1 <=> LegalMove(stacks, selectedStackIndex, to)

C7_Step ==
  (Playing /\ selectedStackIndex # NULL /\ SessionGoesOn) =>
    \A to \in 1..Len(stacks) :
      MoveAttempt(to) => (AcceptedAsLegal(to) \/ ~handleStackClick(to))

\* C7: with a non-empty stack selected, a click on another stack is taken
\* as a move exactly when the destination has room for the whole top group
\* and is empty or has a top box of the group's cat.
C7_AcceptedIffLegal == []C7_State /\ [][C7_Step]_vars

\* a move onto a non-empty stack has been accepted
C7_Witness ==
  /\ timer.pending
  /\ timer.caller = "move"
  /\ Len(timer.stacks[timer.from]) > 0
  /\ Len(timer.stacks[timer.to]) > 0
  /\ LegalMove(timer.stacks, timer.from, timer.to)
  /\ \E to \in 1..Len(timer.stacks) :
       /\ to # timer.from
       /\ ~LegalMove(timer.stacks, timer.from, to)

C8_Accept ==
  (~isAnimating /\ isAnimating' /\ SessionGoesOn) =>
    \A to \in 1..Len(stacks) :
      handleStackClick(to) =>
        /\ moves' = Append(moves, [from |-> selectedStackIndex, to |-> to,
                                   count |-> TopGroupSize(stacks[selectedStackIndex])])
        /\ moveCount' = moveCount + 1
        /\ stacks' = stacks

C8_Apply ==
  (timer.pending /\ timer.caller = "move" /\ animationTimeout) =>
    LET move == moves[Len(moves)]
        n == TopGroupSize(stacks[move.from])
    IN /\ move.count = n
       /\ Len(stacks') = Len(stacks)
       /\ stacks'[move.from] = SliceFrom(stacks[move.from], n)
       /\ stacks'[move.to] = SliceTo(stacks[move.from], n) \o stacks[move.to]
       /\ \A i \in 1..Len(stacks) : i \notin {move.from, move.to} => stacks'[i] = stacks[i]
       /\ moves' = moves
       /\ moveCount' = moveCount

\* C8: an accepted move appends exactly one record [from, to, count = size
\* of the top group] and adds 1 to the move counter; once applied, the top
\* group of `from` is on top of `to` in its order and nothing else changed.
C8_MoveApplied == [][C8_Accept /\ C8_Apply]_vars

\* a group of two boxes has been moved onto a non-empty stack
C8_Witness ==
  /\ trail.phase = "moved"
  /\ Len(moves) > 0
  /\ moves[Len(moves)].count = 2
  /\ Len(stacks[moves[Len(moves)].to]) > 2
  /\ moveCount = Len(moves)

\* the attempt must be rejected: the same stack, no room for the group, or
\* a destination whose top box has another cat than the group
Rejected(board, from, to) ==
  \/ from = to
  \/ Len(board[to]) + TopGroupSize(board[from]) > MAX_STACK_SIZE
  \/ /\ Len(board[from]) > 0
     /\ Len(board[to]) > 0
     /\ CatOf(board[to][1]) # CatOf(board[from][1])

\* the step only clears the selection
OnlyDeselects ==
  /\ selectedStackIndex' = NULL
  /\ UNCHANGED <<stacks, moves, moveCount, isComplete, isLost, isAnimating,
                 animatingBoxes, timer>>

C9_Step ==
  (Playing /\ selectedStackIndex # NULL /\ SessionGoesOn /\ ~OnlyDeselects) =>
    \A to \in 1..Len(stacks) :
      Rejected(stacks, selectedStackIndex, to) => ~handleStackClick(to)

\* C9: a rejected move attempt (same stack, no room, or another cat on top
\* of the destination even with room) changes neither board, history,
\* counter nor flags, starts no animation and clears the selection.
C9_RejectedMove == [][C9_Step]_vars

\* after a move, a click on a stack with room but another cat on top has
\* been refused: nothing is selected and the history kept its record
C9_Witness ==
  /\ rejection = "catMismatch"
  /\ selectedStackIndex = NULL
  /\ ~isAnimating
  /\ Len(moves) > 0
  /\ moveCount = Len(moves)

\* the stacks of a board that hold a box of cat c
Holders(board, c) ==
  {i \in 1..Len(board) : \E p \in 1..Len(board[i]) : CatOf(board[i][p]) = c}

\* every non-empty stack holds one cat only
SingleCatStacks(board) ==
  \A i \in 1..Len(board) :
    \A p, q \in 1..Len(board[i]) : CatOf(board[i][p]) = CatOf(board[i][q])

\* the board is sorted: single-cat stacks, and the MAX_STACK_SIZE boxes of
\* every cat in play together in exactly one stack
Sorted(board, cats) ==
  /\ SingleCatStacks(board)
  /\ \A k \in 1..Len(cats) :
       /\ Cardinality(Holders(board, cats[k])) = 1
       /\ \A i \in Holders(board, cats[k]) :
            Cardinality({p \in 1..Len(board[i]) : CatOf(board[i][p]) = cats[k]})
              = MAX_STACK_SIZE

\* the stacks in the opposite order
Reversed(board) == [i \in 1..Len(board) |-> board[Len(board) + 1 - i]]

\* C11: on every reachable board checkCompletion answers exactly whether the
\* board is sorted (single-cat stacks, each cat's 4 boxes in one stack), and
\* the answer does not depend on the order of the stacks.
C11_CompletionIffSorted ==
  /\ checkCompletion(stacks, activeCats) <=> Sorted(stacks, activeCats)
  /\ checkCompletion(Reversed(stacks), activeCats) <=> Sorted(stacks, activeCats)

\* a move has been applied and left single-cat stacks with a cat split over
\* two of them: not complete
C11_Witness ==
  /\ trail.phase = "moved"
  /\ SingleCatStacks(stacks)
  /\ \E k \in 1..Len(activeCats) : Cardinality(Holders(stacks, activeCats[k])) = 2
  /\ ~isComplete

\* some ordered pair (from, to) of different stacks, the source non-empty,
\* satisfies the legality predicate
AnyLegalMove(board) ==
  \E from, to \in 1..Len(board) :
    /\ from # to
    /\ Len(board[from]) > 0
    /\ LegalMove(board, from, to)

SomeStackEmpty(board) == \E i \in 1..Len(board) : Len(board[i]) = 0

\* C12: checkForValidMoves is true whenever a stack is empty; with no empty
\* stack it is true exactly when some pair (from, to), from # to, with a
\* non-empty source satisfies the legality predicate.
C12_ValidMovesIffLegalPair ==
  /\ SomeStackEmpty(stacks) => checkForValidMoves(stacks)
  /\ ~SomeStackEmpty(stacks) => (checkForValidMoves(stacks) <=> AnyLegalMove(stacks))

\* a board without an empty stack and without a legal pair, although some
\* stack has room
C12_Witness ==
  /\ ~isAnimating
  /\ ~SomeStackEmpty(stacks)
  /\ ~checkForValidMoves(stacks)
  /\ \E i \in 1..Len(stacks) : Len(stacks[i]) < MAX_STACK_SIZE

\* the step calls onComplete
Notified == onCompleteCalls' = onCompleteCalls + 1

C13_Step ==
  /\ Notified <=> (~isComplete /\ isComplete')
  /\ Notified => Sorted(stacks', activeCats')
  /\ ~Notified => (onCompleteCalls' = onCompleteCalls \/ (ops' = 0 /\ onCompleteCalls' = 0))

\* C13: onComplete is called exactly when the session goes from not complete
\* to complete, on a sorted board, and never while it is complete: a
\* complete session has had one call, any other session none.
C13_NotifiedOncePerCompletion ==
  [](onCompleteCalls = IF isComplete THEN 1 ELSE 0) /\ [][C13_Step]_vars

\* a move sorted a board that was not sorted, and onComplete was called once
C13_Witness ==
  /\ isComplete
  /\ onCompleteCalls = 1
  /\ trail.phase = "moved"
  /\ ~Sorted(trail.before, activeCats)
  /\ Sorted(stacks, activeCats)

\* some pair of clicks, the first on a non-empty stack and the second on
\* another stack, is taken as a move
SomeClicksAccepted(board) ==
  \E from, to \in 1..Len(board) :
    /\ from # to
    /\ Len(board[from]) > 0
    /\ clickOutcome(board, from, to) = "move"

\* C14: with no animation in flight, isLost is set exactly when the board is
\* not sorted and no pair of clicks would be taken as a move.
C14_StuckIffNoMove ==
  ~isAnimating =>
    (isLost <=> (~Sorted(stacks, activeCats) /\ ~SomeClicksAccepted(stacks)))

\* a move has been applied and left the session stuck
C14_Witness ==
  /\ ~isAnimating
  /\ isLost
  /\ trail.phase = "moved"
  /\ ~SomeClicksAccepted(stacks)
  /\ SomeClicksAccepted(trail.before)

C15_Accept ==
  (isLost /\ ~undoBlocked /\ SessionGoesOn /\ undoMove) =>
    (isAnimating' /\ ~isLost' /\ Len(moves') = Len(moves) - 1)

C15_Apply ==
  (timer.pending /\ timer.stuck /\ animationTimeout) =>
    (~isLost' /\ ~isComplete' /\ AnyLegalMove(stacks'))

\* C15: an undo requested in a stuck session is accepted, and once it has
\* been applied the session is Playing: isLost is false and the board has a
\* legal move.
C15_UndoLeavesStuck == [][C15_Accept /\ C15_Apply]_vars

\* board, selection, history, counter and flags stay as they are
SessionUntouched ==
  UNCHANGED <<stacks, selectedStackIndex, moves, moveCount, isComplete, isLost,
              isAnimating, animatingBoxes, timer>>

C16_Step ==
  isComplete =>
    /\ \A stackIndex \in 1..Len(stacks) : handleStackClick(stackIndex) => SessionUntouched
    /\ undoMove => SessionUntouched
    /\ ~isComplete' => (handleReset \/ \E d \in Difficulty : handleSetDifficulty(d))

\* C16: once isComplete is set, a stack click and an undo request change
\* nothing; only a reset or a change of difficulty leaves the complete state.
C16_CompleteIsTerminal == [][C16_Step]_vars

\* three moves sorted the board: the session is complete with its history
C16_Witness ==
  /\ isComplete
  /\ ~isAnimating
  /\ Len(moves) = 3
  /\ moveCount = 3
  /\ selectedStackIndex = NULL

\* what the selection protocol lets a click on stackIndex do
C17_Effect(stackIndex) ==
  IF selectedStackIndex = NULL
    THEN /\ selectedStackIndex' = IF Len(stacks[stackIndex]) > 0 THEN stackIndex ELSE NULL
         /\ UNCHANGED <<stacks, moves, moveCount>>
    ELSE /\ selectedStackIndex' = NULL
         /\ stackIndex = selectedStackIndex => UNCHANGED <<stacks, moves, moveCount>>

C17_Step ==
  (Playing /\ SessionGoesOn) =>
    \A stackIndex \in 1..Len(stacks) :
      C17_Effect(stackIndex) \/ ~handleStackClick(stackIndex)

\* C17: in a Playing session with no animation in flight, a click with no
\* selection selects the clicked stack if it has boxes and does nothing if it
\* is empty; a click with a selection present leaves the selection cleared,
\* whether the move was accepted or not; a click on the selected stack
\* deselects and leaves board, history and counter alone.
C17_SelectionProtocol == [][C17_Step]_vars

\* nothing of the session changes
NothingChanges ==
  UNCHANGED <<stacks, selectedStackIndex, moves, moveCount, isComplete, isLost,
              isAnimating, animatingBoxes, timer, difficulty, activeCats>>

\* exactly while isAnimating one callback is scheduled, and the board and the
\* cats its closure captured are those of the session
C18_State ==
  /\ timer.pending <=> isAnimating
  /\ timer.pending => (timer.stacks = stacks /\ timer.cats = activeCats)

\* the callback of an accepted move puts the validated group, the boxes
\* marked as animating, on top of the destination and takes it off the source
ValidatedGroupMoved ==
  /\ SliceTo(stacks'[timer.to], Len(animatingBoxes)) = animatingBoxes
  /\ SliceFrom(stacks'[timer.to], Len(animatingBoxes)) = stacks[timer.to]
  /\ animatingBoxes \o stacks'[timer.from] = stacks[timer.from]

C18_Step ==
  isAnimating =>
    /\ \A stackIndex \in 1..Len(stacks) : handleStackClick(stackIndex) => NothingChanges
    /\ undoMove => NothingChanges
    /\ handleReset => NothingChanges
    /\ animationTimeout =>
         /\ stacks' = movedStacks(stacks, timer.from, timer.to)
         /\ timer.caller = "move" => ValidatedGroupMoved

\* C18: while a move or an undo waits for the animation timer, every stack
\* click, undo request and reset request changes nothing, so the timer
\* applies the mutation to the very board on which the move was validated
\* and moves the group that was validated.
C18_SingleMutationInFlight == []C18_State /\ [][C18_Step]_vars

\* a second move is in flight while the history already holds a record
C18_Witness ==
  /\ isAnimating
  /\ timer.pending
  /\ timer.caller = "move"
  /\ Len(animatingBoxes) > 0
  /\ Len(moves) = 2
  /\ timer.stacks = stacks

\* after the step the session is a new one: a generated board of the
\* difficulty now set with its cats, nothing selected, no history, counter 0,
\* neither complete nor stuck
FreshSession ==
  /\ selectedStackIndex' = NULL
  /\ moves' = <<>>
  /\ moveCount' = 0
  /\ ~isComplete'
  /\ ~isLost'
  /\ ~isAnimating'
  /\ animatingBoxes' = <<>>
  /\ \E g \in NewGames :
       /\ g.installed
       /\ g.difficulty = difficulty'
       /\ g.cats = activeCats'
       /\ g.stacks = stacks'

C19_Step ==
  ~isAnimating =>
    /\ FreshSession \/ ~handleReset
    /\ \A newDifficulty \in Difficulty \ {difficulty} :
         (FreshSession /\ difficulty' = newDifficulty) \/ ~handleSetDifficulty(newDifficulty)

\* C19: with no animation in flight, a reset and a change of difficulty
\* replace the session, whether it was playing, stuck or complete: the board
\* is a newly generated one for the difficulty now set, nothing is selected,
\* the history is empty, the counter is 0 and both flags are false.
C19_NewSession == [][C19_Step]_vars

\* a stuck session has been replaced by a new one
C19_Witness ==
  /\ trail.phase = "newFromStuck"
  /\ ~isLost
  /\ moves = <<>>
  /\ moveCount = 0
  /\ selectedStackIndex = NULL
  /\ FreshGame

\* an accepted undo pops the last record and lowers the counter by one
C20_Accept ==
  (~undoBlocked /\ SessionGoesOn /\ undoMove) =>
    /\ moves' = SubSeq(moves, 1, Len(moves) - 1)
    /\ moveCount' = moveCount - 1
    /\ animatingBoxes' = SliceTo(stacks[moves[Len(moves)].to], moves[Len(moves)].count)

\* the callback of an undo takes the boxes undoMove marked, the `count` top
\* boxes of the record's `to` (timer.from), off that stack and puts them in
\* their order on top of the record's `from` (timer.to)
C20_Apply ==
  (timer.pending /\ timer.caller = "undo" /\ animationTimeout) =>
    /\ stacks'[timer.to] = animatingBoxes \o stacks[timer.to]
    /\ animatingBoxes \o stacks'[timer.from] = stacks[timer.from]
    /\ \A i \in 1..Len(stacks) : i \notin {timer.from, timer.to} => stacks'[i] = stacks[i]

\* C20: an accepted undo removes the last record {from, to, count} from the
\* history, lowers the move counter by 1 and moves exactly `count` boxes from
\* the top of stack `to` back onto the top of stack `from` in their order,
\* without a legality check; the other stacks are unchanged.
C20_UndoMovesCount == [][C20_Accept /\ C20_Apply]_vars

C21_Step ==
  (Len(moves) = 0 /\ undoMove) => (NothingChanges /\ fault' = fault)

\* C21: an undo requested with an empty history changes nothing: board,
\* selection, history, flags and animation state stay as they are, no handler
\* throws, and the move counter stays at 0; the counter is never negative.
C21_UndoWithoutHistory ==
  /\ [](moveCount >= 0 /\ (Len(moves) = 0 => moveCount = 0))
  /\ [][C21_Step]_vars

\* the only move of the session has been undone and a stack is selected: the
\* history is empty again
C21_Witness ==
  /\ trail.phase = "undone"
  /\ moves = <<>>
  /\ moveCount = 0
  /\ ~isAnimating
  /\ ~isComplete
  /\ selectedStackIndex # NULL

\* one pass of initializeGame for difficulty d under the random outcomes of
\* `tape`, before its validation
FirstPass(d, tape) == buildStacks(gameCats(d, tape), d, tape, PoolSize - 1)

\* every first pass leaves its leftover loop and passes the validation, so
\* the game is installed without a regeneration
EveryPassInstalls ==
  \A d \in Difficulty, tape \in Tapes :
    /\ FirstPass(d, tape).ended
    /\ ~invalidPuzzle(FirstPass(d, tape).stacks)
    /\ newGame(d, tape).installed
    /\ newGame(d, tape).stacks = FirstPass(d, tape).stacks

\* C22: for each difficulty and every outcome of the random calls the
\* generation ends and installs a board: the leftover loop exits and the
\* validation (no stack over MAX_STACK_SIZE, no cat with more than
\* MAX_STACK_SIZE boxes) does not fail, so no regeneration is entered; the
\* board of a new session passes that validation.
C22_GenerationInstalls ==
  /\ EveryPassInstalls
  /\ FreshGame => (~invalidPuzzle(stacks) /\ Len(stacks) = DIFFICULTY_CONFIG[difficulty].stacks)

\* a medium game has been generated and installed in place of another
\* session: six stacks of four boxes and two empty stacks
C22_Witness ==
  /\ FreshGame
  /\ trail.phase = "newFromPlaying"
  /\ difficulty = "medium"
  /\ Len(stacks) = 8
  /\ \A i \in 1..6 : Len(stacks[i]) = MAX_STACK_SIZE
  /\ stacks[7] = <<>> /\ stacks[8] = <<>>
  /\ ~invalidPuzzle(stacks)

\* a stack that starts solved: MAX_STACK_SIZE boxes, all of one cat
PreSolved(stack) ==
  /\ Len(stack) = MAX_STACK_SIZE
  /\ \A p, q \in 1..Len(stack) : CatOf(stack[p]) = CatOf(stack[q])

\* no stack of the board is pre-solved
NonePreSolved(board) == \A i \in 1..Len(board) : ~PreSolved(board[i])

\* the boards generated for medium and hard
HarderBoards == {newGame(d, tape).stacks : d \in {"medium", "hard"}, tape \in Tapes}

NoHarderBoardPreSolved == \A board \in HarderBoards : NonePreSolved(board)

\* C23: on the board generated for medium and for hard, after the reshuffle,
\* the swap out of a full one-cat stack and the break-up swaps, no stack
\* holds MAX_STACK_SIZE boxes of one cat.
C23_NoStackPreSolved ==
  /\ NoHarderBoardPreSolved
  /\ (FreshGame /\ difficulty # "easy") => NonePreSolved(stacks)

\* a hard game was generated in place of another session, and without the
\* swap out of a full one-cat stack its board would hold a pre-solved stack
C23_Witness ==
  /\ FreshGame
  /\ trail.phase = "newFromPlaying"
  /\ difficulty = "hard"
  /\ NonePreSolved(stacks)
  /\ \E i \in 1..Len(stacks) :
       /\ Len(stacks[i]) = MAX_STACK_SIZE
       /\ CatOf(stacks[i][1]) # CatOf(stacks[i][2])
       /\ \A p \in 2..MAX_STACK_SIZE : CatOf(stacks[i][p]) = CatOf(stacks[i][2])

\* C24: in every reachable state a selected stack has boxes on the current
\* board, also once an undo has been applied while a stack was selected.
C24_SelectedStackNonEmpty ==
  selectedStackIndex # NULL =>
    /\ selectedStackIndex \in 1..Len(stacks)
    /\ Len(stacks[selectedStackIndex]) > 0

\* C25: whenever isLost is set the history holds a record, so a stuck
\* session can be left by undo: a generated or reset session is not stuck,
\* and with an empty history and no animation in flight the board has a
\* valid move.
C25_StuckHasHistory ==
  /\ isLost => (Len(moves) > 0 /\ ~undoBlocked)
  /\ (Len(moves) = 0 /\ ~isAnimating) => checkForValidMoves(stacks)

\* the third move of the session left no valid move: the session is stuck
\* and its history holds the three records
C25_Witness ==
  /\ isLost
  /\ ~isAnimating
  /\ trail.phase = "moved"
  /\ Len(moves) = 3
  /\ ~checkForValidMoves(stacks)

====
